---- MODULE Spec2Model ----
(***************************************************************************)
(* FocusGuard (src/app.js): the per-frame classifier, the debounced focus  *)
(* state machine, the session statistics and the alarm, as one state       *)
(* machine.  src/app.js holds two variants of the program: the 3-state one *)
(* (lines 1-264: FOCUSED, WARNING, DISTRACTED) and the 4-state one (lines  *)
(* 266-580: adds READING and yaw).  `variant` selects which one runs.      *)
(*                                                                         *)
(* Units.  Time is in milliseconds (Date.now()).  Pitch and yaw are in the *)
(* program's "degrees".  The gaze ratio and the eye aspect ratio are       *)
(* scaled by 100, so that GAZE_DOWN = 0.58 is 58 and EAR_CLOSED = 0.18 is  *)
(* 18; only comparisons against the thresholds are made on them.  A        *)
(* handler runs to completion in one step and reads one clock value.       *)
(***************************************************************************)
EXTENDS Integers, FiniteSets, Sequences, TLC

VARIABLES
    variant,            \* 3 or 4: which variant of app.js is loaded
    THRESHOLDS,         \* the configuration object of the variant loaded
    now,                \* the wall clock, Date.now()
    isGuarding,
    focusState,
    distractionCount,
    focusStartTime,
    lastUpdateTime,
    totalFocusMs,
    warningStartTime,
    eyesClosedStartTime,
    currentAudio,       \* NoAudio, "A" (audioA) or "B" (audioB)
    audioPaused,        \* the elements' .paused attribute
    atEnd,              \* the elements whose playback position is at the end of the clip
    endedQueued,        \* the elements with an 'ended' event queued and not yet dispatched
    inflight,           \* a frame was sent to faceMesh and its results are not delivered yet
    feed,               \* the results the camera and the face-mesh model can produce
    \* history of the run, read by the properties only
    \* what the step just taken did; the first six are reset by a step that is no handler
    event,              \* "load", "frame", "start", "stop", "ended", or "idle"
    signal,             \* the alarm call the handler made: "none", "play", "stop"
    prevState,          \* focusState before the handler ran
    lastResults,        \* the results the frame handler was given (NoFace when no frame)
    lastDistracted,     \* the frame's input was distracted (no face counts as distracted)
    lastReading,        \* the frame's isReading
    everStopped,        \* the stop button was clicked at least once
    epStart,            \* time of the first frame of the current unbroken run of distracted frames
    epClean,            \* that first frame came while guarding, and no click since
    epFrom,             \* focusState before that first frame (kept while epClean)
    epBase,             \* distractionCount before that first frame (kept while epClean)
    epPlayBase,         \* playCalls before that first frame (kept while epClean)
    epCounted,          \* the current run already lasted more than DELAY_MS at some frame
    epLong,             \* number of runs that lasted more than DELAY_MS, until the first stop
    playCalls,          \* calls of playAlarm made by onResults
    focusedOnly,        \* first session, and every frame so far found and left the state FOCUSED
    twin                \* a second run of the program on the same clicks and frames (twin.on)

vars == << variant, THRESHOLDS, twin, now, isGuarding, focusState, distractionCount, focusStartTime,
           lastUpdateTime, totalFocusMs, warningStartTime, eyesClosedStartTime,
           currentAudio, audioPaused, atEnd, endedQueued, inflight, feed,
           event, signal, prevState, lastResults, lastDistracted,
           lastReading, everStopped, epStart, epFrom, epBase, epPlayBase, epClean,
           epCounted, epLong, playCalls, focusedOnly >>

progVars == << variant, THRESHOLDS, isGuarding, focusState, distractionCount, focusStartTime,
               lastUpdateTime, totalFocusMs, warningStartTime, eyesClosedStartTime,
               currentAudio, audioPaused, atEnd, endedQueued, inflight, feed >>

histVars == << event, signal, prevState, lastResults, lastDistracted,
               lastReading, everStopped, epStart, epFrom, epBase, epPlayBase,
               epClean,
               epCounted, epLong, playCalls, focusedOnly >>

---------------------------------------------------------------------------
(* Bounds of the model *)

\* the clock advances in steps of TimeStep ms, MaxTicks times at most
TimeStep == 2000
MaxTicks == 6
ShortTicks == 3
MaxTime == MaxTicks * TimeStep

---------------------------------------------------------------------------
(* Configuration *)

\* src/app.js:290-298
THRESHOLDS4 ==
    [ PITCH_MAX_DOWN |-> -20, PITCH_MIN_DOWN |-> -2, YAW_DISTRACTED |-> 45,
      GAZE_DOWN |-> 58, EAR_CLOSED |-> 18, DELAY_MS |-> 4000, SLEEP_DELAY_MS |-> 3000 ]

\* src/app.js:21-27
THRESHOLDS3 ==
    [ PITCH_DOWN |-> -12, GAZE_DOWN |-> 65, EAR_CLOSED |-> 18,
      DELAY_MS |-> 1500, SLEEP_DELAY_MS |-> 2000 ]

\* the configuration a variant ships with
Shipped(v) == IF v = 4 THEN THRESHOLDS4 ELSE THRESHOLDS3

PITCH_MAX_DOWN == THRESHOLDS.PITCH_MAX_DOWN
PITCH_MIN_DOWN == THRESHOLDS.PITCH_MIN_DOWN
YAW_DISTRACTED == THRESHOLDS.YAW_DISTRACTED
PITCH_DOWN == THRESHOLDS.PITCH_DOWN
GAZE_DOWN == THRESHOLDS.GAZE_DOWN
EAR_CLOSED == THRESHOLDS.EAR_CLOSED
DELAY_MS == THRESHOLDS.DELAY_MS
SLEEP_DELAY_MS == THRESHOLDS.SLEEP_DELAY_MS

---------------------------------------------------------------------------
(* Values *)

\* null, for the two timestamps that start as null
NoTime == -1
\* null, for currentAudio
NoAudio == "null"
Audios == {"A", "B"}
FocusStates == {"FOCUSED", "READING", "WARNING", "DISTRACTED"}

\* the metric values a frame may carry: the thresholds of the 4-state variant and
\* the values next to them on the other side
Pitches == {-21, -20, -3, -2}
Yaws == {-46, 0, 45, 46}
Gazes == {58, 59}
Ears == {17, 18}

\* results.multiFaceLandmarks of one frame, reduced to the metrics computed from it
FaceResults == [face : {TRUE}, pitch : Pitches, yaw : Yaws, gaze : Gazes, ear : Ears]
NoFace == [face |-> FALSE, pitch |-> 0, yaw |-> 0, gaze |-> 0, ear |-> 0]
Results == FaceResults \cup {NoFace}

Abs(x) == IF x < 0 THEN -x ELSE x

\* JavaScript's ToNumber on a timestamp that may be null: null - x is 0 - x
ToNumber(t) == IF t = NoTime THEN 0 ELSE t

---------------------------------------------------------------------------
(* Threshold classifier: onResults, src/app.js:445-463 and 146-153 *)

isSlumpingDown(r) == r.pitch < PITCH_MAX_DOWN
\* mutant: the reading bracket has no lower end
isBowingToReadNoFloor(r) == r.pitch < PITCH_MIN_DOWN

isBowingToRead(r) == r.pitch < PITCH_MIN_DOWN /\ r.pitch >= PITCH_MAX_DOWN
isHeadTurned(r) == Abs(r.yaw) > YAW_DISTRACTED
isHeadDown(r) == r.pitch < PITCH_DOWN
isGazeDown(r) == r.gaze > GAZE_DOWN
isClosed(r) == r.ear < EAR_CLOSED

\* mutant: reading needs the gaze down, as the comment above the line says
isReadingGazeDown(r) ==
    isBowingToRead(r) /\ ~isHeadTurned(r) /\ ~isClosed(r) /\ isGazeDown(r)

isReading(r) == isBowingToRead(r) /\ ~isHeadTurned(r) /\ ~isClosed(r)

\* mutant: a bowed head counts as distracted whenever the gaze is not down
distractedSignal4Gaze(r) ==
    \/ isHeadTurned(r)
    \/ isClosed(r)
    \/ isSlumpingDown(r)
    \/ (isBowingToRead(r) /\ ~isGazeDown(r))

\* mutant: slumping is not looked at
distractedSignal4NoSlump(r) ==
    \/ isHeadTurned(r)
    \/ isClosed(r)
    \/ (isBowingToRead(r) /\ ~isReading(r) /\ ~isGazeDown(r))

\* mutant: a turned head is not looked at
distractedSignal4NoTurn(r) ==
    \/ isClosed(r)
    \/ isSlumpingDown(r)
    \/ (isBowingToRead(r) /\ ~isReading(r) /\ ~isGazeDown(r))

distractedSignal4(r) ==
    \/ isHeadTurned(r)
    \/ isClosed(r)
    \/ isSlumpingDown(r)
    \/ (isBowingToRead(r) /\ ~isReading(r) /\ ~isGazeDown(r))

distractedSignal3(r) == isHeadDown(r) \/ isGazeDown(r) \/ isClosed(r)

distractedSignal(r) == IF variant = 4 THEN distractedSignal4(r) ELSE distractedSignal3(r)

\* the 3-state variant has no isReading
readingSignal(r) == IF variant = 4 THEN isReading(r) ELSE FALSE

---------------------------------------------------------------------------
(* Session statistics: updateStats, src/app.js:382-392 and 90-99 *)

\* mutant: READING does not count as focused time, as in the 3-state variant
AccruesFocusedOnly(fs) == fs = "FOCUSED"

Accrues(fs) == IF variant = 4 THEN fs = "FOCUSED" \/ fs = "READING" ELSE fs = "FOCUSED"

\* mutant: totalFocusMs = dt, where the code has +=
updateStatsOverwrite(st, t) ==
    IF ~st.isGuarding
    THEN [lastUpdateTime |-> st.lastUpdateTime, totalFocusMs |-> st.totalFocusMs]
    ELSE LET dt == t - st.lastUpdateTime
         IN  [lastUpdateTime |-> t,
              totalFocusMs |-> IF Accrues(st.focusState) THEN dt ELSE st.totalFocusMs]

\* the values of lastUpdateTime and totalFocusMs after updateStats() runs at
\* time t on the program state st
updateStats(st, t) ==
    IF ~st.isGuarding
    THEN [lastUpdateTime |-> st.lastUpdateTime, totalFocusMs |-> st.totalFocusMs]
    ELSE LET dt == t - st.lastUpdateTime
         IN  [lastUpdateTime |-> t,
              totalFocusMs |-> IF Accrues(st.focusState) THEN st.totalFocusMs + dt
                               ELSE st.totalFocusMs]

---------------------------------------------------------------------------
(* Alarm: playAlarm and stopAlarm, src/app.js:401-415 and 108-122 *)

AudioState ==
    [currentAudio |-> currentAudio, audioPaused |-> audioPaused,
     atEnd |-> atEnd]

\* playAlarm(), with pick the clip Math.random() selects
playAlarm(au, pick) ==
    IF au.currentAudio = NoAudio \/ au.audioPaused[au.currentAudio]
    THEN [currentAudio |-> pick,
          audioPaused |-> [au.audioPaused EXCEPT ![pick] = FALSE],
          atEnd |-> au.atEnd \ {pick}]
    ELSE au

\* mutant: the clip is paused but stays the current audio
stopAlarmKeep(au) ==
    IF au.currentAudio # NoAudio
    THEN [currentAudio |-> au.currentAudio,
          audioPaused |-> [au.audioPaused EXCEPT ![au.currentAudio] = TRUE],
          atEnd |-> au.atEnd \ {au.currentAudio}]
    ELSE au

stopAlarm(au) ==
    IF au.currentAudio # NoAudio
    THEN [currentAudio |-> NoAudio,
          audioPaused |-> [au.audioPaused EXCEPT ![au.currentAudio] = TRUE],
          atEnd |-> au.atEnd \ {au.currentAudio}]
    ELSE au

---------------------------------------------------------------------------
(* Focus state machine: onResults, src/app.js:465-501 and 155-187.  Each    *)
(* branch gives the new focusState and warningStartTime, the increment of  *)
(* distractionCount and the alarm call made.                               *)

Outcome(fs, wst, inc, call) ==
    [focusState |-> fs, warningStartTime |-> wst, inc |-> inc, call |-> call]

\* mutant: no grace period, a distracted frame in WARNING is a distraction at once
FaceBranch4NoGrace(fs, wst, d, r, t) ==
    IF fs = "FOCUSED" \/ fs = "READING"
    THEN IF d THEN Outcome("WARNING", t, 0, "none")
         ELSE IF r THEN Outcome("READING", wst, 0, "none")
         ELSE Outcome("FOCUSED", wst, 0, "none")
    ELSE IF fs = "WARNING"
    THEN IF ~d THEN Outcome(IF r THEN "READING" ELSE "FOCUSED", NoTime, 0, "none")
         ELSE Outcome("DISTRACTED", wst, 1, "play")
    ELSE IF fs = "DISTRACTED"
    THEN IF ~d THEN Outcome(IF r THEN "READING" ELSE "FOCUSED", wst, 0, "stop")
         ELSE Outcome(fs, wst, 0, "none")
    ELSE Outcome(fs, wst, 0, "none")

\* mutant: the grace period of a face ends at DELAY_MS, not after it
FaceBranch4AtDelay(fs, wst, d, r, t) ==
    IF fs = "FOCUSED" \/ fs = "READING"
    THEN IF d THEN Outcome("WARNING", t, 0, "none")
         ELSE IF r THEN Outcome("READING", wst, 0, "none")
         ELSE Outcome("FOCUSED", wst, 0, "none")
    ELSE IF fs = "WARNING"
    THEN IF ~d THEN Outcome(IF r THEN "READING" ELSE "FOCUSED", NoTime, 0, "none")
         ELSE IF t - ToNumber(wst) >= DELAY_MS THEN Outcome("DISTRACTED", wst, 1, "play")
         ELSE Outcome(fs, wst, 0, "none")
    ELSE IF fs = "DISTRACTED"
    THEN IF ~d THEN Outcome(IF r THEN "READING" ELSE "FOCUSED", wst, 0, "stop")
         ELSE Outcome(fs, wst, 0, "none")
    ELSE Outcome(fs, wst, 0, "none")

\* mutant: leaving DISTRACTED does not call stopAlarm
FaceBranch4NoStop(fs, wst, d, r, t) ==
    IF fs = "FOCUSED" \/ fs = "READING"
    THEN IF d THEN Outcome("WARNING", t, 0, "none")
         ELSE IF r THEN Outcome("READING", wst, 0, "none")
         ELSE Outcome("FOCUSED", wst, 0, "none")
    ELSE IF fs = "WARNING"
    THEN IF ~d THEN Outcome(IF r THEN "READING" ELSE "FOCUSED", NoTime, 0, "none")
         ELSE IF t - ToNumber(wst) > DELAY_MS THEN Outcome("DISTRACTED", wst, 1, "play")
         ELSE Outcome(fs, wst, 0, "none")
    ELSE IF fs = "DISTRACTED"
    THEN IF ~d THEN Outcome(IF r THEN "READING" ELSE "FOCUSED", wst, 0, "none")
         ELSE Outcome(fs, wst, 0, "none")
    ELSE Outcome(fs, wst, 0, "none")

\* src/app.js:465-488
FaceBranch4(fs, wst, d, r, t) ==
    IF fs = "FOCUSED" \/ fs = "READING"
    THEN IF d THEN Outcome("WARNING", t, 0, "none")
         ELSE IF r THEN Outcome("READING", wst, 0, "none")
         ELSE Outcome("FOCUSED", wst, 0, "none")
    ELSE IF fs = "WARNING"
    THEN IF ~d THEN Outcome(IF r THEN "READING" ELSE "FOCUSED", NoTime, 0, "none")
         ELSE IF t - ToNumber(wst) > DELAY_MS THEN Outcome("DISTRACTED", wst, 1, "play")
         ELSE Outcome(fs, wst, 0, "none")
    ELSE IF fs = "DISTRACTED"
    THEN IF ~d THEN Outcome(IF r THEN "READING" ELSE "FOCUSED", wst, 0, "stop")
         ELSE Outcome(fs, wst, 0, "none")
    ELSE Outcome(fs, wst, 0, "none")

\* mutant: every distracted frame in DISTRACTED is counted again
FaceBranch3Recount(fs, wst, d, t) ==
    IF fs = "FOCUSED"
    THEN IF d THEN Outcome("WARNING", t, 0, "none")
         ELSE Outcome(fs, wst, 0, "none")
    ELSE IF fs = "WARNING"
    THEN IF ~d THEN Outcome("FOCUSED", NoTime, 0, "none")
         ELSE IF t - ToNumber(wst) > DELAY_MS THEN Outcome("DISTRACTED", wst, 1, "play")
         ELSE Outcome(fs, wst, 0, "none")
    ELSE IF fs = "DISTRACTED"
    THEN IF ~d THEN Outcome("FOCUSED", wst, 0, "stop")
         ELSE Outcome(fs, wst, 1, "none")
    ELSE Outcome(fs, wst, 0, "none")

\* src/app.js:155-174
FaceBranch3(fs, wst, d, t) ==
    IF fs = "FOCUSED"
    THEN IF d THEN Outcome("WARNING", t, 0, "none")
         ELSE Outcome(fs, wst, 0, "none")
    ELSE IF fs = "WARNING"
    THEN IF ~d THEN Outcome("FOCUSED", NoTime, 0, "none")
         ELSE IF t - ToNumber(wst) > DELAY_MS THEN Outcome("DISTRACTED", wst, 1, "play")
         ELSE Outcome(fs, wst, 0, "none")
    ELSE IF fs = "DISTRACTED"
    THEN IF ~d THEN Outcome("FOCUSED", wst, 0, "stop")
         ELSE Outcome(fs, wst, 0, "none")
    ELSE Outcome(fs, wst, 0, "none")

\* mutant: the grace period ends at DELAY_MS, not after it
NoFaceBranchAtDelay(fs, wst, guarding, t) ==
    IF guarding
    THEN IF fs = "FOCUSED" THEN Outcome("WARNING", t, 0, "none")
         ELSE IF fs = "WARNING" /\ t - ToNumber(wst) >= DELAY_MS
         THEN Outcome("DISTRACTED", wst, 1, "play")
         ELSE Outcome(fs, wst, 0, "none")
    ELSE Outcome(fs, wst, 0, "none")

\* src/app.js:489-501 and 175-187 (the same text in both variants)
NoFaceBranch(fs, wst, guarding, t) ==
    IF guarding
    THEN IF fs = "FOCUSED" THEN Outcome("WARNING", t, 0, "none")
         ELSE IF fs = "WARNING" /\ t - ToNumber(wst) > DELAY_MS
         THEN Outcome("DISTRACTED", wst, 1, "play")
         ELSE Outcome(fs, wst, 0, "none")
    ELSE Outcome(fs, wst, 0, "none")

\* the state machine's step on one frame's results
Transition(fs, wst, guarding, res, t) ==
    IF res.face
    THEN IF variant = 4
         THEN FaceBranch4(fs, wst, distractedSignal(res), readingSignal(res), t)
         ELSE FaceBranch3(fs, wst, distractedSignal(res), t)
    ELSE NoFaceBranch(fs, wst, guarding, t)

\* the alarm call a handler makes, applied to the audio state
Alarm(au, call, pick) ==
    IF call = "play" THEN playAlarm(au, pick)
    ELSE IF call = "stop" THEN stopAlarm(au)
    ELSE au

\* a frame's input counts as distracted when the classifier says so or no face is found
InputDistracted(res) == IF res.face THEN distractedSignal(res) ELSE TRUE

---------------------------------------------------------------------------
(* The handlers as functions of the program state: the module-level         *)
(* variables the handlers read and write, with the audio elements, and in   *)
(* `call` the alarm call the handler made                                   *)

ProgState ==
    [on |-> TRUE, isGuarding |-> isGuarding, focusState |-> focusState,
     distractionCount |-> distractionCount, focusStartTime |-> focusStartTime,
     lastUpdateTime |-> lastUpdateTime, totalFocusMs |-> totalFocusMs,
     warningStartTime |-> warningStartTime, currentAudio |-> currentAudio,
     audioPaused |-> audioPaused, atEnd |-> atEnd, call |-> signal]

AudioOf(st) ==
    [currentAudio |-> st.currentAudio, audioPaused |-> st.audioPaused, atEnd |-> st.atEnd]

\* mutant: the distraction is counted inside playAlarm's if, only when a clip
\* is started
ResultsHandlerCountsStarts(st, res, t, pick) ==
    LET stats == updateStats(st, t)
        out == Transition(st.focusState, st.warningStartTime, st.isGuarding, res, t)
        au == Alarm(AudioOf(st), out.call, pick)
        started == st.currentAudio = NoAudio \/ st.audioPaused[st.currentAudio]
    IN  [st EXCEPT !.lastUpdateTime = stats.lastUpdateTime,
                   !.totalFocusMs = stats.totalFocusMs,
                   !.focusState = out.focusState,
                   !.warningStartTime = out.warningStartTime,
                   !.distractionCount = IF started THEN @ + out.inc ELSE @,
                   !.currentAudio = au.currentAudio,
                   !.audioPaused = au.audioPaused,
                   !.atEnd = au.atEnd,
                   !.call = out.call]

\* onResults(results) at time t, with pick the clip Math.random() would select
ResultsHandler(st, res, t, pick) ==
    LET stats == updateStats(st, t)
        out == Transition(st.focusState, st.warningStartTime, st.isGuarding, res, t)
        au == Alarm(AudioOf(st), out.call, pick)
    IN  [st EXCEPT !.lastUpdateTime = stats.lastUpdateTime,
                   !.totalFocusMs = stats.totalFocusMs,
                   !.focusState = out.focusState,
                   !.warningStartTime = out.warningStartTime,
                   !.distractionCount = @ + out.inc,
                   !.currentAudio = au.currentAudio,
                   !.audioPaused = au.audioPaused,
                   !.atEnd = au.atEnd,
                   !.call = out.call]

\* startBtn click handler at time t; audioA.play() then audioA.pause() leaves
\* audioA paused
StartHandler(st, t) ==
    [st EXCEPT !.isGuarding = TRUE,
               !.focusStartTime = t,
               !.lastUpdateTime = t,
               !.audioPaused = [@ EXCEPT !["A"] = TRUE],
               !.atEnd = @ \ {"A"},
               !.call = "none"]

\* stopBtn click handler
StopHandler(st) ==
    LET au == stopAlarm(AudioOf(st))
    IN  [st EXCEPT !.isGuarding = FALSE,
                   !.currentAudio = au.currentAudio,
                   !.audioPaused = au.audioPaused,
                   !.atEnd = au.atEnd,
                   !.focusState = "FOCUSED",
                   !.call = "stop"]

\* the handler leaves the program in state st
Becomes(st) ==
    /\ isGuarding' = st.isGuarding
    /\ focusState' = st.focusState
    /\ distractionCount' = st.distractionCount
    /\ focusStartTime' = st.focusStartTime
    /\ lastUpdateTime' = st.lastUpdateTime
    /\ totalFocusMs' = st.totalFocusMs
    /\ warningStartTime' = st.warningStartTime
    /\ currentAudio' = st.currentAudio
    /\ audioPaused' = st.audioPaused
    /\ atEnd' = st.atEnd
    /\ signal' = st.call

\* the second run: off, or the state of a run whose clips never play to their end
TwinOff ==
    [on |-> FALSE, isGuarding |-> FALSE, focusState |-> "FOCUSED",
     distractionCount |-> 0, focusStartTime |-> 0, lastUpdateTime |-> 0,
     totalFocusMs |-> 0, warningStartTime |-> NoTime, currentAudio |-> NoAudio,
     audioPaused |-> [a \in Audios |-> TRUE], atEnd |-> {}, call |-> "none"]

\* the second run may be one whose camera sees the same frames with any gaze:
\* its record then has a field gaze, the gaze ratio of the last frame it was given
Regazing == "gaze" \in DOMAIN twin

\* the second run takes no step, and the record of its last call and of its last
\* frame is cleared
TwinIdle ==
    twin' = IF Regazing THEN [twin EXCEPT !.call = "none", !.gaze = 0]
            ELSE [twin EXCEPT !.call = "none"]

---------------------------------------------------------------------------
(* Initial state: the module-level declarations, src/app.js:300-309, 29-38, *)
(* of variant v, loaded when the clock reads t0, in front of the scene f     *)

InitLoaded(v, th, f, t0) ==
    /\ variant = v
    /\ THRESHOLDS = th
    /\ now = t0
    /\ isGuarding = FALSE
    /\ focusState = "FOCUSED"
    /\ distractionCount = 0
    /\ focusStartTime = t0
    /\ lastUpdateTime = t0
    /\ totalFocusMs = 0
    /\ warningStartTime = NoTime
    /\ eyesClosedStartTime = NoTime
    /\ currentAudio = NoAudio
    /\ audioPaused = [a \in Audios |-> TRUE]
    /\ atEnd = {}
    /\ endedQueued = {}
    /\ inflight = FALSE
    /\ feed = f

\* variant v as shipped, run once
InitProgram(v, f, t0) == InitLoaded(v, Shipped(v), f, t0) /\ twin = TwinOff

InitHistory ==
    /\ event = "load"
    /\ signal = "none"
    /\ prevState = "FOCUSED"
    /\ lastResults = NoFace
    /\ lastDistracted = FALSE
    /\ lastReading = FALSE
    /\ everStopped = FALSE
    /\ epStart = NoTime
    /\ epFrom = "FOCUSED"
    /\ epBase = 0
    /\ epPlayBase = 0
    /\ epClean = FALSE
    /\ epCounted = FALSE
    /\ epLong = 0
    /\ playCalls = 0
    /\ focusedOnly = TRUE

\* one frame of each kind the state machine tells apart: upright and attentive,
\* bowed over the desk with the gaze down, bowed with the gaze up and the head
\* turned as far as YAW_DISTRACTED, slumped, and no face in the picture
Scene ==
    { [face |-> TRUE, pitch |-> -2, yaw |-> 0, gaze |-> 58, ear |-> 18],
      [face |-> TRUE, pitch |-> -13, yaw |-> 0, gaze |-> 66, ear |-> 18],
      [face |-> TRUE, pitch |-> -3, yaw |-> 45, gaze |-> 58, ear |-> 18],
      [face |-> TRUE, pitch |-> -21, yaw |-> 0, gaze |-> 59, ear |-> 18],
      NoFace }

\* the 4-state variant, in front of any scene
Init == InitProgram(4, Scene, 0) /\ InitHistory

---------------------------------------------------------------------------
(* Steps *)

\* the handler just run was given no frame
NoFrame ==
    /\ lastResults' = NoFace
    /\ lastDistracted' = FALSE
    /\ lastReading' = FALSE

\* a click of start or stop: the run of distracted frames is no longer one
\* unbroken stretch of guarding
Click ==
    /\ epClean' = FALSE
    /\ epFrom' = "FOCUSED"
    /\ epBase' = 0
    /\ epPlayBase' = 0
    /\ UNCHANGED epStart

\* a step that runs no handler of the program leaves no record of a handler
Idle ==
    /\ event' = "idle"
    /\ signal' = "none"
    /\ prevState' = focusState
    /\ NoFrame
    /\ TwinIdle
    /\ UNCHANGED << everStopped, epStart, epFrom, epBase, epPlayBase, epClean,
                    epCounted, epLong, playCalls, focusedOnly >>

\* the wall clock advances
Tick ==
    /\ now + TimeStep <= MaxTime
    /\ now' = now + TimeStep
    /\ UNCHANGED progVars
    /\ Idle

\* Camera onFrame, src/app.js:533-538: a frame is sent to the model while guarding
SendFrame ==
    /\ isGuarding
    /\ ~inflight
    /\ inflight' = TRUE
    /\ UNCHANGED << variant, THRESHOLDS, now, isGuarding, focusState, distractionCount,
                    focusStartTime, lastUpdateTime, totalFocusMs, warningStartTime, eyesClosedStartTime,
                    currentAudio, audioPaused, atEnd, endedQueued, feed >>
    /\ Idle

\* the history of the runs of distracted frames, after a frame with input distracted = d
EpisodeAfter(d) ==
    IF ~d
    THEN [epStart |-> NoTime, epFrom |-> "FOCUSED", epBase |-> 0, epPlayBase |-> 0,
          epClean |-> FALSE, epCounted |-> FALSE, epLong |-> epLong]
    ELSE LET fresh == epStart = NoTime
             start == IF fresh THEN now ELSE epStart
             clean == IF fresh THEN isGuarding ELSE epClean
             \* the runs are counted in the first session only
             long == ~everStopped /\ now - start > DELAY_MS
             counted == IF fresh THEN FALSE ELSE epCounted
         IN  [epStart |-> start,
              epFrom |-> IF ~clean THEN "FOCUSED" ELSE IF fresh THEN focusState ELSE epFrom,
              epBase |-> IF ~clean THEN 0 ELSE IF fresh THEN distractionCount ELSE epBase,
              epPlayBase |-> IF ~clean THEN 0 ELSE IF fresh THEN playCalls ELSE epPlayBase,
              epClean |-> clean,
              epCounted |-> counted \/ long,
              epLong |-> IF long /\ ~counted THEN epLong + 1 ELSE epLong]

\* onResults(results), src/app.js:419-514 and 126-200
onResults(res, pick) ==
    /\ inflight
    /\ inflight' = FALSE
    /\ LET st == ResultsHandler(ProgState, res, now, pick)
           d == InputDistracted(res)
           ep == EpisodeAfter(d)
       IN  /\ Becomes(st)
           /\ event' = "frame"
           /\ prevState' = focusState
           /\ lastResults' = res
           /\ lastDistracted' = d
           /\ lastReading' = (res.face /\ readingSignal(res))
           /\ epStart' = ep.epStart
           /\ epFrom' = ep.epFrom
           /\ epBase' = ep.epBase
           /\ epPlayBase' = ep.epPlayBase
           /\ epClean' = ep.epClean
           /\ epCounted' = ep.epCounted
           /\ epLong' = ep.epLong
           /\ playCalls' = IF st.call = "play" THEN playCalls + 1 ELSE playCalls
           /\ focusedOnly' = (focusedOnly /\ res.face /\ ~d /\ ~readingSignal(res))
    /\ UNCHANGED << variant, THRESHOLDS, now, eyesClosedStartTime,
                    endedQueued, feed, everStopped >>

\* the clips Math.random() may select when onResults runs on st: both when
\* playAlarm is called, and one for all when it is not (the choice is not made)
Picks(st, res) ==
    IF Transition(st.focusState, st.warningStartTime, st.isGuarding, res, now).call = "play"
    THEN Audios ELSE {"A"}

\* the second run is given the same results at the same time, and makes its own pick
TwinResults(res) ==
    IF ~twin.on THEN UNCHANGED twin
    ELSE IF Regazing /\ res.face
    THEN \E g \in Gazes :
            LET seen == [res EXCEPT !.gaze = g]
            IN  \E pick \in Picks(twin, seen) :
                    twin' = [ResultsHandler(twin, seen, now, pick) EXCEPT !.gaze = g]
    ELSE \E pick \in Picks(twin, res) : twin' = ResultsHandler(twin, res, now, pick)

\* the face-mesh model delivers the results of the frame in flight
Deliver ==
    \E res \in feed :
        /\ \E pick \in Picks(ProgState, res) : onResults(res, pick)
        /\ TwinResults(res)

\* startBtn click handler, src/app.js:545-558 and 229-242
StartClick ==
    /\ ~isGuarding
    /\ Becomes(StartHandler(ProgState, now))
    /\ twin' = IF twin.on THEN StartHandler(twin, now) ELSE twin
    /\ event' = "start"
    /\ prevState' = focusState
    /\ NoFrame
    /\ Click
    /\ UNCHANGED << variant, THRESHOLDS, now, eyesClosedStartTime,
                    endedQueued, inflight, feed, everStopped, epCounted, epLong,
                    playCalls, focusedOnly >>

\* stopBtn click handler, src/app.js:560-572 and 244-256
StopClick ==
    /\ isGuarding
    /\ Becomes(StopHandler(ProgState))
    /\ twin' = IF twin.on THEN StopHandler(twin) ELSE twin
    /\ event' = "stop"
    /\ prevState' = focusState
    /\ everStopped' = TRUE
    /\ NoFrame
    /\ Click
    /\ epCounted' = FALSE
    /\ epLong' = 0
    /\ focusedOnly' = FALSE
    /\ UNCHANGED << variant, THRESHOLDS, now, eyesClosedStartTime, endedQueued,
                    inflight, feed, playCalls >>

\* the playback of a clip reaches its end: the browser queues the 'ended' task
ReachEnd ==
    \E a \in Audios :
        /\ ~audioPaused[a]
        /\ a \notin atEnd
        /\ atEnd' = atEnd \cup {a}
        /\ endedQueued' = endedQueued \cup {a}
        /\ UNCHANGED << variant, THRESHOLDS, now, isGuarding, focusState, distractionCount,
                        focusStartTime, lastUpdateTime, totalFocusMs, warningStartTime,
                        eyesClosedStartTime, currentAudio, audioPaused,
                        inflight, feed >>
        /\ Idle

\* the 'ended' task runs: the element pauses if it still stands at its end, and
\* its onended handler is called.  A clip plays only after playAlarm started it,
\* and playAlarm sets its onended to playAlarm (src/app.js:405), which nothing
\* clears: the handler of a clip that ends is always playAlarm.
Ended ==
    \E a \in endedQueued, pick \in Audios :
        LET paused1 == IF a \in atEnd /\ ~audioPaused[a]
                       THEN [audioPaused EXCEPT ![a] = TRUE]
                       ELSE audioPaused
            au1 == [AudioState EXCEPT !.audioPaused = paused1, !.atEnd = atEnd \ {a}]
            au == playAlarm(au1, pick)
        IN  /\ endedQueued' = endedQueued \ {a}
            /\ currentAudio' = au.currentAudio
            /\ audioPaused' = au.audioPaused
            /\ atEnd' = au.atEnd
            /\ event' = "ended"
            /\ signal' = "play"
            /\ prevState' = focusState
            /\ NoFrame
            /\ TwinIdle
            /\ UNCHANGED << variant, THRESHOLDS, now, isGuarding, focusState, distractionCount,
                            focusStartTime, lastUpdateTime, totalFocusMs, warningStartTime,
                            eyesClosedStartTime, inflight, feed, everStopped,
                            epStart, epFrom, epBase, epPlayBase, epClean,
                            epCounted, epLong, playCalls, focusedOnly >>

Next ==
    \/ Tick
    \/ SendFrame
    \/ Deliver
    \/ StartClick
    \/ StopClick
    \/ ReachEnd
    \/ Ended

Spec == Init /\ [][Next]_vars

\* the page is watched for ShortTicks steps of the clock after a late load
LateLoad == MaxTime - ShortTicks * TimeStep

\* the 3-state variant, whose DELAY_MS is shorter
Init3 == InitProgram(3, Scene, LateLoad) /\ InitHistory
Spec3 == Init3 /\ [][Next]_vars

\* either variant
InitBoth == Init \/ Init3
SpecBoth == InitBoth /\ [][Next]_vars

\* the 4-state variant in front of a user who holds one posture, any of Results
InitPosture == (\E r \in Results : InitProgram(4, {r}, LateLoad)) /\ InitHistory
SpecPosture == InitPosture /\ [][Next]_vars

\* the 4-state variant in front of a user who holds one posture, any of
\* Results, and at times leaves the picture
InitAway == (\E r \in Results : InitProgram(4, {r, NoFace}, LateLoad)) /\ InitHistory
SpecAway == InitAway /\ [][Next]_vars

\* the 4-state variant with its THRESHOLDS literal as shipped, or edited so that
\* the two pitch bounds are swapped
Edited ==
    { THRESHOLDS4,
      [THRESHOLDS4 EXCEPT !.PITCH_MAX_DOWN = THRESHOLDS4.PITCH_MIN_DOWN,
                          !.PITCH_MIN_DOWN = THRESHOLDS4.PITCH_MAX_DOWN] }
InitConfig ==
    (\E th \in Edited : InitLoaded(4, th, Scene, LateLoad)) /\ InitHistory /\ twin = TwinOff
SpecConfig == InitConfig /\ [][Next]_vars

\* the 4-state variant run twice from the same initial state, on the same clicks
\* and the same frames at the same times; each run makes its own picks, and the
\* clips of the first run end at any time
InitReplay == InitLoaded(4, THRESHOLDS4, Scene, 0) /\ InitHistory /\ twin = ProgState
SpecReplay == InitReplay /\ [][Next]_vars

\* the 4-state variant run twice in front of a user who holds one posture, any of
\* Results, and at times leaves the picture; the second run is given every
\* frame with a gaze ratio of its own
InitGaze ==
    /\ \E r \in Results : InitLoaded(4, THRESHOLDS4, {r, NoFace}, LateLoad)
    /\ InitHistory
    /\ twin = ProgState @@ [gaze |-> 0]
SpecGaze == InitGaze /\ [][Next]_vars

---------------------------------------------------------------------------
(* Properties *)

\* the kinds of step, told from the program's own variables
FrameStep == inflight /\ ~inflight'
StartStep == ~isGuarding /\ isGuarding'
StopStep == isGuarding /\ ~isGuarding'

Calm == {"FOCUSED", "READING"}

\* C1: the state becomes DISTRACTED, the counter grows and playAlarm is called by
\* a frame only together, and only on a frame whose input is distracted, that
\* finds the state WARNING more than DELAY_MS after warningStartTime, every
\* frame since then having been distracted; a frame that is not distracted
\* takes WARNING back to FOCUSED or READING, counting nothing and calling nothing.
C1_Debounce ==
    [][ /\ (focusState # "DISTRACTED" /\ focusState' = "DISTRACTED") =>
               /\ FrameStep
               /\ lastDistracted'
               /\ focusState = "WARNING"
               /\ warningStartTime # NoTime
               /\ now - warningStartTime > DELAY_MS
               /\ epStart # NoTime
               /\ epStart <= warningStartTime
               /\ distractionCount' = distractionCount + 1
               /\ signal' = "play"
        /\ (distractionCount' # distractionCount \/ (FrameStep /\ signal' = "play")) =>
               (FrameStep /\ focusState # "DISTRACTED" /\ focusState' = "DISTRACTED")
        /\ (FrameStep /\ focusState = "WARNING" /\ ~lastDistracted') =>
               /\ focusState' \in Calm
               /\ distractionCount' = distractionCount
               /\ signal' = "none"
      ]_vars

\* a second distraction was just counted, after a second grace period
C1_Witness ==
    /\ event = "frame"
    /\ prevState = "WARNING"
    /\ focusState = "DISTRACTED"
    /\ lastDistracted
    /\ signal = "play"
    /\ distractionCount = 2

\* C2: in a session of frames, distractionCount is the number of unbroken runs
\* of distracted frames (a distracted face, or no face) that lasted more than
\* DELAY_MS.
C2_CountIsLongEpisodes == ~everStopped => distractionCount = epLong

\* C3: guarding, from FOCUSED, while every frame is distracted (a distracted face
\* or no face): WARNING as long as the last frame is no later than DELAY_MS
\* after the first, DISTRACTED from the first frame later than that, with the
\* counter one higher and playAlarm called once.
C3_SustainedDistraction ==
    (isGuarding /\ epStart # NoTime /\ epClean /\ epFrom = "FOCUSED") =>
        IF lastUpdateTime <= epStart + DELAY_MS
        THEN /\ focusState = "WARNING"
             /\ distractionCount = epBase
             /\ playCalls = epPlayBase
        ELSE /\ focusState = "DISTRACTED"
             /\ distractionCount = epBase + 1
             /\ playCalls = epPlayBase + 1

\* a run that began with FOCUSED, mixed faces and no face, and reached DISTRACTED
C3_Witness ==
    /\ isGuarding /\ epClean /\ epFrom = "FOCUSED"
    /\ event = "frame"
    /\ ~lastResults.face
    /\ prevState = "WARNING"
    /\ focusState = "DISTRACTED"
    /\ warningStartTime = epStart
    /\ lastUpdateTime > epStart + DELAY_MS
    /\ distractionCount = epBase + 1

\* C4: while guarding, a frame with no face does what a frame with a distracted,
\* not reading face does: same next state, warningStartTime, counter and alarm call.
C4_NoFaceAsDistracted ==
    [][ (FrameStep /\ isGuarding /\ ~lastResults'.face) =>
            LET ref == FaceBranch4(focusState, warningStartTime, TRUE, FALSE, now)
            IN  /\ focusState' = ref.focusState
                /\ warningStartTime' = ref.warningStartTime
                /\ distractionCount' = distractionCount + ref.inc
                /\ signal' = ref.call
      ]_vars

\* C5 as claimed: a frame or a click calls playAlarm exactly when it takes the
\* state into DISTRACTED, and stopAlarm exactly when it takes it out of DISTRACTED.
C5_SignalsOnlyOnTransitions ==
    [][ (FrameStep \/ StartStep \/ StopStep) =>
            /\ (signal' = "play") <=> (focusState # "DISTRACTED" /\ focusState' = "DISTRACTED")
            /\ (signal' = "stop") <=> (focusState = "DISTRACTED" /\ focusState' # "DISTRACTED")
      ]_vars

\* C5 as amended: a frame or a click calls playAlarm exactly when it takes the
\* state into DISTRACTED; stopAlarm is called by exactly the frames that take
\* the state out of DISTRACTED and by every click of stop, whatever the state.
C5_AlarmSignals ==
    [][ (FrameStep \/ StartStep \/ StopStep) =>
            /\ (signal' = "play") <=> (focusState # "DISTRACTED" /\ focusState' = "DISTRACTED")
            /\ (signal' = "stop") <=>
                   \/ StopStep
                   \/ (FrameStep /\ focusState = "DISTRACTED" /\ focusState' # "DISTRACTED")
      ]_vars

\* stop was clicked during the grace period: stopAlarm is called though no alarm plays
C5_Witness ==
    /\ event = "stop"
    /\ prevState = "WARNING"
    /\ signal = "stop"
    /\ focusState = "FOCUSED"

\* C6: right after the stop handler the state is FOCUSED, no alarm is current and
\* isGuarding is false; totalFocusMs stands still while not guarding, and no
\* frame of the next session adds time from before its start.
C6_Stop ==
    [][ /\ StopStep =>
               /\ focusState' = "FOCUSED"
               /\ currentAudio' = NoAudio
               /\ ~isGuarding'
        /\ ~isGuarding => totalFocusMs' = totalFocusMs
        /\ (FrameStep /\ isGuarding) => totalFocusMs' - totalFocusMs <= now - focusStartTime
      ]_vars

\* stop was just clicked while the alarm was the current audio
C6_Witness ==
    /\ event = "stop"
    /\ prevState = "DISTRACTED"
    /\ focusState = "FOCUSED"
    /\ currentAudio = NoAudio
    /\ totalFocusMs > 0

\* C7: a click of start that comes right after a click of stop, whatever the
\* session before the stop was, leaves the state FOCUSED and both statistics zero.
C7_RestartResets ==
    [][ (StartStep /\ event = "stop") =>
            /\ focusState' = "FOCUSED"
            /\ totalFocusMs' = 0
            /\ distractionCount' = 0
      ]_vars

\* C8: a frame processed while guarding adds the time since lastUpdateTime to
\* totalFocusMs when it finds the state FOCUSED or READING and nothing when it
\* finds WARNING or DISTRACTED; a session of focused frames alone has
\* totalFocusMs equal to the time from its start to its last frame, and counts
\* no distraction.
C8_FocusAccounting ==
    /\ []((focusedOnly /\ isGuarding) =>
              /\ totalFocusMs = lastUpdateTime - focusStartTime
              /\ distractionCount = 0)
    /\ [][ (FrameStep /\ isGuarding) =>
               /\ lastUpdateTime' = now
               /\ focusState \in Calm =>
                      totalFocusMs' = totalFocusMs + (now - lastUpdateTime)
               /\ focusState \notin Calm => totalFocusMs' = totalFocusMs
         ]_vars

\* three focused frames, one step of the clock apart
C8_Witness ==
    /\ focusedOnly /\ isGuarding
    /\ event = "frame"
    /\ totalFocusMs = 3 * TimeStep
    /\ distractionCount = 0

\* the reading posture, as the claim gives it
ReadingPosture(r) ==
    /\ r.face
    /\ r.pitch >= PITCH_MAX_DOWN
    /\ r.pitch < PITCH_MIN_DOWN
    /\ Abs(r.yaw) <= YAW_DISTRACTED
    /\ r.ear >= EAR_CLOSED

C10_SlumpingIsDistracted ==
    (event = "frame" /\ lastResults.face /\ lastResults.pitch < PITCH_MAX_DOWN) =>
        (lastDistracted /\ ~lastReading)

\* a slumped face with nothing else wrong: head straight, eyes open, gaze down
C10_Witness ==
    /\ event = "frame"
    /\ lastResults.face
    /\ lastResults.pitch < PITCH_MAX_DOWN
    /\ Abs(lastResults.yaw) <= YAW_DISTRACTED
    /\ lastResults.ear >= EAR_CLOSED
    /\ lastResults.gaze > GAZE_DOWN
    /\ lastDistracted

\* C11: a face with |yaw| > YAW_DISTRACTED is classified distracted and not
\* reading, whatever its pitch, gaze and eye aspect ratio.
C11_HeadTurnedIsDistracted ==
    (event = "frame" /\ lastResults.face /\ Abs(lastResults.yaw) > YAW_DISTRACTED) =>
        (lastDistracted /\ ~lastReading)

\* a turned head with nothing else wrong: upright, eyes open, gaze not down
C11_Witness ==
    /\ event = "frame"
    /\ lastResults.face
    /\ lastResults.yaw < -YAW_DISTRACTED
    /\ lastResults.pitch >= PITCH_MIN_DOWN
    /\ lastResults.ear >= EAR_CLOSED
    /\ lastResults.gaze <= GAZE_DOWN
    /\ lastDistracted
    /\ ~lastReading

\* the grace period the README gives: "35+ second grace period", src/app.js:601
README_GRACE_MS == 35000

\* C13: in front of a user who looks sideways all the time, a frame calls
\* playAlarm and counts a distraction only when the distracted frames have gone
\* on unbroken for at least the 35 seconds the README gives.
C13_DocumentedGracePeriod ==
    (/\ \A r \in feed : r.face /\ isHeadTurned(r)
     /\ event = "frame"
     /\ (signal = "play" \/ (prevState # "DISTRACTED" /\ focusState = "DISTRACTED"))) =>
        /\ epStart # NoTime
        /\ now - epStart >= README_GRACE_MS

\* C14: while not guarding, whatever runs (the results of a frame sent before
\* the stop included) leaves the state FOCUSED and the counter as it is, and
\* calls no playAlarm from a frame.
C14_QuietWhileStopped ==
    [][ (~isGuarding /\ ~isGuarding') =>
            /\ focusState' = "FOCUSED"
            /\ distractionCount' = distractionCount
            /\ FrameStep => signal' # "play"
      ]_vars

\* C15: a face with the pitch in the reading bracket and the gaze not down is
\* classified distracted and not reading.
C15_ReadingNeedsGazeDown ==
    (/\ event = "frame"
     /\ lastResults.face
     /\ lastResults.pitch >= PITCH_MAX_DOWN
     /\ lastResults.pitch < PITCH_MIN_DOWN
     /\ lastResults.gaze <= GAZE_DOWN) =>
        (lastDistracted /\ ~lastReading)

\* C16: a distracted frame (a distracted face, or no face) that finds the state
\* WARNING at most DELAY_MS after warningStartTime leaves it WARNING, counts
\* nothing and calls no alarm; it makes the state DISTRACTED only when more
\* than DELAY_MS have passed.
C16_DebounceBoundary ==
    [][ (FrameStep /\ focusState = "WARNING" /\ lastDistracted') =>
            /\ now - ToNumber(warningStartTime) <= DELAY_MS =>
                   /\ focusState' = "WARNING"
                   /\ distractionCount' = distractionCount
                   /\ signal' = "none"
            /\ focusState' \in {"WARNING", "DISTRACTED"}
            /\ focusState' = "DISTRACTED" => now - ToNumber(warningStartTime) > DELAY_MS
      ]_vars

\* a frame with a distracted face arrived exactly DELAY_MS after the warning
\* began, and the state is still WARNING
C16_Witness ==
    /\ event = "frame"
    /\ isGuarding
    /\ lastResults.face
    /\ lastDistracted
    /\ prevState = "WARNING"
    /\ focusState = "WARNING"
    /\ lastUpdateTime - warningStartTime = DELAY_MS
    /\ signal = "none"

\* C17: in front of a user who sits upright with the eyes closed on every
\* frame, guarding from FOCUSED, the alarm is called at the first frame that comes more than
\* SLEEP_DELAY_MS after the first frame with the eyes closed, and not before.
C17_SleepDelay ==
    (/\ \A r \in feed : /\ r.face /\ isClosed(r)
                         /\ r.pitch >= PITCH_MIN_DOWN /\ ~isHeadTurned(r)
     /\ event = "frame"
     /\ isGuarding /\ epClean /\ epFrom = "FOCUSED") =>
        IF now - epStart > SLEEP_DELAY_MS
        THEN focusState = "DISTRACTED" /\ playCalls = epPlayBase + 1
        ELSE focusState = "WARNING" /\ playCalls = epPlayBase

\* the step takes the state from WARNING to DISTRACTED
WarningToDistracted == focusState = "WARNING" /\ focusState' = "DISTRACTED"

\* C20: the state becomes DISTRACTED only from WARNING; distractionCount starts
\* at zero and grows by one on exactly the steps from WARNING to DISTRACTED, and
\* is always the number of playAlarm calls the state machine has made.
C20_CountIsTransitions ==
    /\ [](distractionCount = playCalls)
    /\ [][ /\ (focusState # "DISTRACTED" /\ focusState' = "DISTRACTED") => focusState = "WARNING"
           /\ distractionCount' = distractionCount + (IF WarningToDistracted THEN 1 ELSE 0)
           /\ playCalls' = playCalls + (IF WarningToDistracted THEN 1 ELSE 0)
         ]_vars

\* the second transition of a session that followed a stopped one
C20_Witness ==
    /\ event = "frame"
    /\ everStopped
    /\ prevState = "WARNING"
    /\ focusState = "DISTRACTED"
    /\ distractionCount = 2
    /\ playCalls = 2

\* C12: two runs from the same initial state, given the same frames and clicks at
\* the same times, agree after every step on the focus state, distractionCount
\* and totalFocusMs, and after every handler on the alarm call it made, whatever
\* clips the two runs pick and whenever their clips end.
C12_ReplayDeterministic ==
    twin.on =>
        /\ twin.focusState = focusState
        /\ twin.distractionCount = distractionCount
        /\ twin.totalFocusMs = totalFocusMs
        /\ twin.isGuarding = isGuarding
        /\ event \in {"frame", "start", "stop"} => twin.call = signal

\* the two runs picked different clips for the first alarm, and both have just
\* counted their second distraction
C12_Witness ==
    /\ twin.on
    /\ event = "frame"
    /\ signal = "play"
    /\ focusState = "DISTRACTED"
    /\ distractionCount = 2
    /\ currentAudio # NoAudio
    /\ twin.currentAudio # NoAudio
    /\ twin.currentAudio # currentAudio

\* C18: no step, be it a frame, a click of start or stop, or the passing of
\* time, makes totalFocusMs or distractionCount smaller.
C18_StatisticsMonotonic ==
    [][ /\ totalFocusMs' >= totalFocusMs
        /\ distractionCount' >= distractionCount
      ]_vars

\* a later session has just added to what an earlier one had accumulated
C18_Witness ==
    /\ event = "frame"
    /\ everStopped
    /\ isGuarding
    /\ distractionCount >= 1
    /\ lastUpdateTime > focusStartTime
    /\ totalFocusMs > lastUpdateTime - focusStartTime

\* thresholds out of sensible range
Invalid(th) == th.PITCH_MAX_DOWN >= th.PITCH_MIN_DOWN \/ th.DELAY_MS < 0

C21_AlarmOnlyWhileDistracted ==
    (\E a \in Audios : ~audioPaused[a]) => focusState = "DISTRACTED"

\* C23: no face is classified both reading and distracted, whatever its pitch,
\* yaw, gaze and eye aspect ratio; a frame classified reading leaves the state
\* READING, never WARNING, and starts no warning.
C23_ReadingExcludesDistracted ==
    (event = "frame" /\ lastResults.face) =>
        /\ ~(lastReading /\ lastDistracted)
        /\ lastReading => (focusState = "READING" /\ signal # "play")

\* a reading frame ended a warning
C23_Witness ==
    /\ event = "frame"
    /\ lastResults.face
    /\ lastReading
    /\ ~lastDistracted
    /\ prevState = "WARNING"
    /\ focusState = "READING"

====
